---- MODULE Spec2Model ----
(***************************************************************************)
(* Data Hub integration of the enquiry management tool                     *)
(* (app/enquiries/common/datahub_utils.py): the metadata cache             *)
(* (dh_fetch_metadata), the field mappers (map_to_datahub_id, get_dh_id),  *)
(* the search adapters and the submission pipeline dh_investment_create.   *)
(*                                                                         *)
(* Python values are modelled as follows.  None is the string "None";      *)
(* parsed JSON bodies are strings ("{}" is the empty object); dates are    *)
(* the strings of Days; a metadata dictionary is a record                  *)
(* [failed, cats] where cats maps each loaded category to its entries.     *)
(* An invocation of a function is split at its remote requests: one action *)
(* is one request together with the local code that runs up to the next    *)
(* request (or up to the return / the escaping exception).                 *)
(***************************************************************************)
EXTENDS Naturals, Sequences, FiniteSets, TLC

\* ------------------------------------------------------------ bounds
\* Invocations of dh_investment_create in one behaviour.
MaxCalls == 2
\* Invocations of dh_fetch_metadata by the cache callers in one behaviour.
MaxRefreshes == 3
\* Non-success / failed metadata responses in one behaviour of the cache callers.
MaxFailures == 1
\* The longest list of entries handed to a field mapper called on its own.
MaxLen == 3

\* ------------------------------------------------------------ values
None == "None"

\* Concurrent invocations of dh_investment_create on the one enquiry.
Procs == {1, 2}
\* Concurrent callers of dh_fetch_metadata.
Callers == {1, 2}

\* ref_data.DatahubProjectStatus (DEFAULT is the not-submitted value).
DEFAULT == "DEFAULT"
PROSPECT == "PROSPECT"
DatahubProjectStatus == {DEFAULT, PROSPECT, "ACTIVE"}

\* Calendar dates in increasing order; Days[1] is a date in the past.
Days == <<"2020-02-03", "2020-08-04", "2020-08-05">>

DATA_HUB_METADATA_ENDPOINTS ==
    << "country",
       "fdi-type",
       "investment-investor-type",
       "investment-involvement",
       "investment-project-stage",
       "investment-specific-programme",
       "investment-type",
       "referral-source-activity",
       "referral-source-website",
       "sector" >>

NumEndpoints == Len(DATA_HUB_METADATA_ENDPOINTS)
EndpointSet == {DATA_HUB_METADATA_ENDPOINTS[i] : i \in 1..NumEndpoints}

\* What the remote system serves for each metadata endpoint: a JSON array of
\* {id, name} objects.
RemoteMetadata ==
    [e \in EndpointSet |->
        CASE e = "investment-type" ->
               << [id |-> "it-fdi", name |-> "FDI"],
                  [id |-> "it-non-fdi", name |-> "Non-FDI"] >>
          [] e = "investment-project-stage" ->
               << [id |-> "st-prospect", name |-> "Prospect"],
                  [id |-> "st-active", name |-> "Active"] >>
          [] e = "referral-source-activity" ->
               << [id |-> "rsa-website", name |-> "Website"] >>
          [] e = "referral-source-website" ->
               << [id |-> "rsw-iigb", name |-> "Invest in GREAT Britain"] >>
          [] e = "sector" ->
               << [id |-> "sec-aero", name |-> "Aerospace"],
                  [id |-> "sec-aero-2", name |-> "Aerospace"] >>
          [] OTHER ->
               << [id |-> "id-" \o e, name |-> "name-" \o e] >>]

\* ------------------------------------------------------------ metadata values
\* A metadata dictionary: a Python dict (type) with its "failed" list and the
\* loaded categories; by records which refresh fetched each endpoint (0: the
\* dictionary was passed in by the caller).
EmptyMetadata == [type |-> "dict", failed |-> <<>>, cats |-> <<>>, by |-> <<>>]

\* metadata[endpoint] raises KeyError when the category is not in the dictionary.
HasCategory(dh_metadata, dh_category) == dh_category \in DOMAIN dh_metadata.cats

\* A dictionary as a refresh leaves it when exactly the endpoints of F failed.
MetadataWithout(F) ==
    [type |-> "dict",
     failed |-> SelectSeq(DATA_HUB_METADATA_ENDPOINTS, LAMBDA e : e \in F),
     cats |-> [e \in EndpointSet \ F |-> RemoteMetadata[e]],
     by |-> [e \in EndpointSet |-> 0]]

\* The same as served by a remote system that lists "FDI" twice.
MetadataDuplicateFDI ==
    [type |-> "dict",
     failed |-> <<>>,
     by |-> [e \in EndpointSet |-> 0],
     cats |-> [e \in EndpointSet |->
                 IF e = "investment-type"
                 THEN << [id |-> "it-fdi", name |-> "FDI"],
                         [id |-> "it-fdi-old", name |-> "FDI"] >>
                 ELSE RemoteMetadata[e]]]

\* The dictionaries a caller passes as the metadata argument.
SuppliedMetadata ==
    {MetadataWithout(F) : F \in {{}, {"investment-type"}, {"sector"}}}
        \cup {MetadataDuplicateFDI}

\* ------------------------------------------------------------ field mappers
Matching(items, key_value) == SelectSeq(items, LAMBDA d : d.name = key_value)

\* map_to_datahub_id taking the last matching entry.
map_to_datahub_id_last(refdata_value, dh_metadata, dh_category) ==
    LET dh_data == Matching(dh_metadata.cats[dh_category], refdata_value)
    IN  IF dh_data # <<>> THEN dh_data[Len(dh_data)].id ELSE None

\* map_to_datahub_id: the id of the first entry whose name is refdata_value,
\* None when there is none.  (The category must be in the dictionary.)
map_to_datahub_id(refdata_value, dh_metadata, dh_category) ==
    LET dh_data == Matching(dh_metadata.cats[dh_category], refdata_value)
    IN  IF dh_data # <<>> THEN dh_data[1].id ELSE None

\* get_dh_id: the assertion holds iff exactly one entry matches.
get_dh_id_asserts(metadata_items, name) == Len(Matching(metadata_items, name)) = 1

get_dh_id(metadata_items, name) == Matching(metadata_items, name)[1].id

\* Python truthiness of a parsed JSON body or None ("if error:").
Truthy(v) == v \notin {None, "{}", "[]", ""}

\* json.loads accepts str, bytes or bytearray only; it raises TypeError for
\* a dict.  The metadata dictionaries are dicts, JSON text is a string here.
json_loads_raises(v) == v.type # "str"

\* The first exception of a sequence of evaluations ("none": none raised).
RECURSIVE FirstRaised(_)
FirstRaised(excs) ==
    IF excs = <<>> THEN "none"
    ELSE IF Head(excs) # "none" THEN Head(excs)
    ELSE FirstRaised(Tail(excs))

\* dh_metadata[category] followed by get_dh_id(.., name)
RequiredExc(dh_metadata, category, name) ==
    IF ~HasCategory(dh_metadata, category) THEN "KeyError"
    ELSE IF ~get_dh_id_asserts(dh_metadata.cats[category], name) THEN "AssertionError"
    ELSE "none"

\* map_to_datahub_id(.., dh_metadata, category)
MappedExc(dh_metadata, category) ==
    IF ~HasCategory(dh_metadata, category) THEN "KeyError" ELSE "none"

\* ------------------------------------------------------------ remote requests
\* A request through dh_request either raises (the transport failed: kind
\* "timeout") or returns the HTTP response (kind "http") whatever its status.
\* body is the parsed JSON of an error answer, results the ids of the
\* records of a success answer.
Http(status, body, results) ==
    [kind |-> "http", status |-> status, body |-> body, results |-> results,
     processed |-> status < 400]

Timeout(processed) ==
    [kind |-> "timeout", status |-> 0, body |-> None, results |-> <<>>,
     processed |-> processed]

ErrorBodies == {"{}", "{name: [This field may not be blank.]}"}

ContactAnswers ==
    {Timeout(FALSE)}
        \cup {Http(200, "{results}", r) : r \in {<<>>, << "376fe77b" >>}}
        \cup {Http(400, b, <<>>) : b \in ErrorBodies}

AdviserAnswers ==
    {Timeout(FALSE)}
        \cup {Http(200, "{results}", r) : r \in {<<>>, << "X" >>, << "Y", "X" >>}}
        \cup {Http(403, b, <<>>) : b \in ErrorBodies}

\* The remote system may have created the project although the answer was lost.
CreateAnswers ==
    {Timeout(FALSE), Timeout(TRUE), Http(201, "{id}", <<>>), Http(400, "{detail}", <<>>)}

\* requests.Response.ok
ok(resp) == resp.status < 400

Normalized(results) == [i \in 1..Len(results) |-> [datahub_id |-> results[i]]]

\* lines 204-221 (the request has returned resp)
dh_contact_search(resp) ==
    IF ~ok(resp) THEN [list |-> <<>>, error |-> resp.body]
    ELSE [list |-> Normalized(resp.results), error |-> None]

\* lines 260-274 (the request has returned resp)
dh_adviser_search(resp) ==
    IF resp.status # 200 THEN [list |-> <<>>, error |-> resp.body]
    ELSE [list |-> Normalized(resp.results), error |-> None]

\* lines 161-191 (the request has returned resp)
dh_company_search(resp) ==
    IF ~ok(resp) THEN [list |-> <<>>, error |-> resp.body]
    ELSE [list |-> Normalized(resp.results), error |-> None]

\* dh_request, lines 51-64, given how the remote system would answer: requests
\* raises on a transport failure, which is logged and raised again; a method
\* other than GET and POST sends nothing and leaves `response` unbound at the
\* return statement.
dh_request(method, answer) ==
    IF method \notin {"GET", "POST"}
    THEN [kind |-> "raise", exc |-> "UnboundLocalError", logged |-> 0,
          sent |-> FALSE, response |-> <<>>]
    ELSE IF answer.kind = "timeout"
    THEN [kind |-> "raise", exc |-> "RequestException", logged |-> 1,
          sent |-> TRUE, response |-> <<>>]
    ELSE [kind |-> "return", exc |-> "none", logged |-> 0,
          sent |-> TRUE, response |-> << answer >>]

\* The three search adapters and the method each passes to dh_request.
Adapters == {"dh_company_search", "dh_contact_search", "dh_adviser_search"}

MethodOf(fn) == IF fn = "dh_adviser_search" THEN "GET" ELSE "POST"

\* A whole call of adapter fn: the request, then the lines after it.
Search(fn, answer) ==
    LET sent == dh_request(MethodOf(fn), answer)
        pair == CASE fn = "dh_company_search" -> dh_company_search(sent.response[1])
                  [] fn = "dh_contact_search" -> dh_contact_search(sent.response[1])
                  [] OTHER -> dh_adviser_search(sent.response[1])
    IN  IF sent.kind = "raise"
        THEN [kind |-> "raise", exc |-> sent.exc, list |-> <<>>, error |-> None]
        ELSE [kind |-> "return", exc |-> "none", list |-> pair.list,
              error |-> pair.error]

\* Answers the remote system can give to a request sent on its own: no answer
\* in time, a success status with up to two results, an error status with a
\* JSON body.
RemoteIds == {"X", "Y"}

ResultLists ==
    {<<>>} \cup {<< a >> : a \in RemoteIds} \cup {<< a, b >> : a, b \in RemoteIds}

JsonErrorBodies == ErrorBodies \cup {"[]"}

TrialAnswers ==
    {Timeout(FALSE)}
        \cup {Http(st, "{results}", r) : st \in {200, 201}, r \in ResultLists}
        \cup {Http(st, b, <<>>) : st \in {400, 500}, b \in JsonErrorBodies}

\* ------------------------------------------------------------ metadata cache
\* How the remote system answers one metadata GET: "ok" (response.ok),
\* "error" (a non-success status), "timeout" (requests raises).
AllOk == [e \in EndpointSet |-> "ok"]

RECURSIVE ResponsesUpTo(_)
ResponsesUpTo(k) ==
    IF k = 0 THEN {AllOk}
    ELSE LET R == ResponsesUpTo(k - 1)
         IN  R \cup {[r EXCEPT ![e] = o] :
                        r \in R, e \in EndpointSet, o \in {"error", "timeout"}}

\* The answers to the GETs of one refresh, at most MaxFailures of them failing.
Responses == ResponsesUpTo(MaxFailures)

\* The answers to the GETs of a refresh begun by dh_investment_create.
SubmitResponses ==
    {AllOk, [AllOk EXCEPT !["sector"] = "error"],
     [AllOk EXCEPT !["investment-type"] = "timeout"]}

\* FetchOne with the failed endpoint not recorded.
FetchOneForgetsFailure(md, endpoint, resp, who) ==
    IF resp = "ok"
    THEN [md EXCEPT !.cats = @ @@ (endpoint :> RemoteMetadata[endpoint]),
                    !.by = @ @@ (endpoint :> who)]
    ELSE [md EXCEPT !.by = @ @@ (endpoint :> who)]

\* lines 92-98: the body of the loop for one endpoint whose GET returned.
FetchOne(md, endpoint, resp, who) ==
    IF resp = "ok"
    THEN [md EXCEPT !.cats = @ @@ (endpoint :> RemoteMetadata[endpoint]),
                    !.by = @ @@ (endpoint :> who)]
    ELSE [md EXCEPT !.failed = Append(@, endpoint),
                    !.by = @ @@ (endpoint :> who)]

\* lines 78-105: the loop over the endpoints from index i on.  A GET that
\* raises is not caught: the exception leaves _dh_fetch_metadata.
RECURSIVE FetchFrom(_, _, _, _)
FetchFrom(i, md, responses, who) ==
    IF i > NumEndpoints THEN [raised |-> FALSE, value |-> md]
    ELSE LET endpoint == DATA_HUB_METADATA_ENDPOINTS[i]
         IN  IF responses[endpoint] = "timeout"
             THEN [raised |-> TRUE, value |-> EmptyMetadata]
             ELSE FetchFrom(i + 1, FetchOne(md, endpoint, responses[endpoint], who),
                            responses, who)

_dh_fetch_metadata(responses, who) == FetchFrom(1, EmptyMetadata, responses, who)

\* SlotAfter keeping, for the categories that failed, what the slot held.
SlotAfterMerging(slot, md, i) ==
    IF i # NumEndpoints THEN slot
    ELSE IF slot = <<>> THEN << md >>
    ELSE LET old == slot[1]
             kept == {e \in DOMAIN old.cats : e \notin DOMAIN md.cats}
         IN  << [md EXCEPT
                   !.cats = [e \in DOMAIN md.cats \cup kept |->
                               IF e \in kept THEN old.cats[e] ELSE md.cats[e]],
                   !.by = [e \in DOMAIN md.by |->
                               IF e \in kept THEN old.by[e] ELSE md.by[e]]] >>

\* SlotAfter with the dictionary stored after every GET.
SlotAfterEachGet(slot, md, i) == << md >>

\* lines 119-121: the slot once the GET of endpoint number i has been handled
\* into md: cache.set is called with the whole dictionary, after the loop.
SlotAfter(slot, md, i) == IF i = NumEndpoints THEN << md >> ELSE slot

\* CacheMiss that also refreshes when the cached dictionary lists failures.
CacheMissOnFailed(slot) == slot = <<>> \/ slot[1].failed # <<>>

\* line 117: "if not cached_metadata" (cache.get gives None for an empty or
\* expired slot; a stored dictionary always has its "failed" key).
CacheMiss(slot) == slot = <<>>

\* lines 115-127 as one step: what dh_fetch_metadata returns or that it
\* raises, the slot afterwards and whether the endpoints were requested.
dh_fetch_metadata(slot, cache_up, responses, who) ==
    IF ~cache_up
    THEN [raised |-> TRUE, value |-> EmptyMetadata, slot |-> slot, fetched |-> FALSE]
    ELSE IF CacheMiss(slot)
    THEN LET got == _dh_fetch_metadata(responses, who)
         IN  IF got.raised
             THEN [raised |-> TRUE, value |-> EmptyMetadata, slot |-> slot,
                   fetched |-> TRUE]
             ELSE [raised |-> FALSE, value |-> got.value, slot |-> << got.value >>,
                   fetched |-> TRUE]
    ELSE [raised |-> FALSE, value |-> slot[1], slot |-> slot, fetched |-> FALSE]

\* AcquireOutcome without the except clause of lines 320-322: the exception
\* of dh_fetch_metadata leaves dh_investment_create.
AcquireOutcomeUncaught(md_arg, slot, cache_up, responses, who) ==
    IF md_arg # <<>>
    THEN [kind |-> "proceed", exc |-> "none", dh_metadata |-> md_arg[1],
          slot |-> slot, fetched |-> FALSE, source |-> "supplied",
          vocabulary |-> md_arg]
    ELSE LET got == dh_fetch_metadata(slot, cache_up, responses, who)
             from == IF got.raised THEN "raised"
                     ELSE IF got.fetched THEN "refresh" ELSE "cache"
             given == IF got.raised THEN <<>> ELSE << got.value >>
         IN  IF got.raised
             THEN [kind |-> "raise", exc |-> "RequestException",
                   dh_metadata |-> EmptyMetadata,
                   slot |-> got.slot, fetched |-> got.fetched, source |-> from,
                   vocabulary |-> given]
             ELSE IF json_loads_raises(got.value)
             THEN [kind |-> "raise", exc |-> "TypeError", dh_metadata |-> EmptyMetadata,
                   slot |-> got.slot, fetched |-> got.fetched, source |-> from,
                   vocabulary |-> given]
             ELSE [kind |-> "proceed", exc |-> "none", dh_metadata |-> got.value,
                   slot |-> got.slot, fetched |-> got.fetched, source |-> from,
                   vocabulary |-> given]

\* lines 317-325: the dictionary to use, the error or the escaping exception.
\* source and vocabulary say where the dictionary came from and what
\* dh_fetch_metadata or the caller gave.
AcquireOutcome(md_arg, slot, cache_up, responses, who) ==
    IF md_arg # <<>>
    THEN [kind |-> "proceed", exc |-> "none", dh_metadata |-> md_arg[1],
          slot |-> slot, fetched |-> FALSE, source |-> "supplied",
          vocabulary |-> md_arg]
    ELSE LET got == dh_fetch_metadata(slot, cache_up, responses, who)
             from == IF got.raised THEN "raised"
                     ELSE IF got.fetched THEN "refresh" ELSE "cache"
             given == IF got.raised THEN <<>> ELSE << got.value >>
         IN  IF got.raised
             THEN [kind |-> "return", exc |-> "none", dh_metadata |-> EmptyMetadata,
                   slot |-> got.slot, fetched |-> got.fetched, source |-> from,
                   vocabulary |-> given]
             ELSE IF json_loads_raises(got.value)
             THEN [kind |-> "raise", exc |-> "TypeError", dh_metadata |-> EmptyMetadata,
                   slot |-> got.slot, fetched |-> got.fetched, source |-> from,
                   vocabulary |-> given]
             ELSE [kind |-> "proceed", exc |-> "none", dh_metadata |-> got.value,
                   slot |-> got.slot, fetched |-> got.fetched, source |-> from,
                   vocabulary |-> given]

\* What the GETs of a refresh begun by dh_investment_create came to.
MetadataReply(out) ==
    [kind |-> "metadata", status |-> 0, body |-> None, results |-> <<>>,
     processed |-> FALSE, raised |-> out.source = "raised"]

\* ------------------------------------------------------------ state
VARIABLES
    db,           \* the persisted Enquiry row
    clock,        \* index of today's date in Days
    cache,        \* the cache slot "metadata": <<>> (empty or expired) or <<value>>
    projects,     \* investment projects the remote system has created for the enquiry
    calls,        \* invocations of dh_investment_create begun so far
    ok_creates,   \* creation requests answered with a success response so far
    pc,           \* per invocation: where it is
    enquiry,      \* per invocation: the Enquiry object it was given
    metadata,     \* per invocation: the metadata argument (<<>>: None)
    dh_metadata,  \* per invocation: the dictionary the payload is built from
    response,     \* per invocation: the response dictionary {errors, result}
    exc,          \* per invocation: the exception that escaped ("none")
    reqs,         \* per invocation: the remote requests it sent, in order
    replies,      \* per invocation: how each of these requests was answered, in order
    acquired,     \* per invocation: where its metadata came from and what it was
    payload,      \* per invocation: the creation payload sent (<<>>: none)
    overlapped,   \* per invocation: it began while another was in progress
    succeeded,    \* per invocation: a creation request had succeeded before it began
    cpc,          \* per cache caller: where it is
    cidx,         \* per cache caller: index of the next endpoint to fetch
    cmeta,        \* per cache caller: the metadata dictionary being collected
    cret,         \* per cache caller: the value dh_fetch_metadata returned
    cgets,        \* per cache caller: the endpoints it requested, in order
    canswers,     \* per cache caller: how each of these requests ended, in order
    refreshes,    \* invocations of dh_fetch_metadata by the cache callers so far
    failures,     \* failed metadata responses seen by the cache callers so far
    trial         \* a single call of dh_request, a search adapter or a field mapper

submitVars == <<db, clock, projects, calls, ok_creates, pc, enquiry, metadata, dh_metadata,
                response, exc, reqs, replies, acquired, payload, overlapped,
                succeeded>>
cacheVars == <<cpc, cidx, cmeta, cret, cgets, canswers, refreshes, failures>>
vars == <<submitVars, cache, cacheVars, trial>>

today == Days[clock]

\* The invocation has not come to its metadata yet.
NotAcquired == [source |-> "none", vocabulary |-> <<>>]

\* No function is being called on its own.
NoTrial == [fn |-> "none"]

EmptyResponse == [errors |-> <<>>, result |-> <<>>]

\* Enquiry rows as the storage layer may hold them.  The fields are
\* independent columns: any status may come with any date.
Enquiries ==
    [company_name : {"Test company"},
     dh_company_id : {None, "1234-2468"},
     date_added_to_datahub : {None, Days[1]},
     datahub_project_status : DatahubProjectStatus,
     crm : {"", "Data Hub user 1"},
     estimated_land_date : {None, Days[3]},
     primary_sector : {"Aerospace"},
     investment_type : {"Acquisition"}]

Init ==
    /\ db \in Enquiries
    /\ clock = 2
    /\ cache = <<>>
    /\ projects = 0
    /\ calls = 0
    /\ ok_creates = 0
    /\ pc = [p \in Procs |-> "idle"]
    /\ enquiry = [p \in Procs |-> db]
    /\ metadata = [p \in Procs |-> <<>>]
    /\ dh_metadata = [p \in Procs |-> EmptyMetadata]
    /\ response = [p \in Procs |-> EmptyResponse]
    /\ exc = [p \in Procs |-> "none"]
    /\ reqs = [p \in Procs |-> <<>>]
    /\ replies = [p \in Procs |-> <<>>]
    /\ acquired = [p \in Procs |-> NotAcquired]
    /\ payload = [p \in Procs |-> <<>>]
    /\ overlapped = [p \in Procs |-> FALSE]
    /\ succeeded = [p \in Procs |-> FALSE]
    /\ cpc = [c \in Callers |-> "idle"]
    /\ cidx = [c \in Callers |-> 1]
    /\ cmeta = [c \in Callers |-> EmptyMetadata]
    /\ cret = [c \in Callers |-> <<>>]
    /\ cgets = [c \in Callers |-> <<>>]
    /\ canswers = [c \in Callers |-> <<>>]
    /\ refreshes = 0
    /\ failures = 0
    /\ trial = NoTrial

\* ------------------------------------------------------------ dh_investment_create
Error(key, detail) == [key |-> key, detail |-> detail]

Active(q) == pc[q] \notin {"idle", "returned", "raised"}

\* line 298: "if not enquiry.dh_company_id"
CompanyMissing(e) == ~Truthy(e.dh_company_id)

\* lines 303-306: the resubmission guard
AlreadySubmitted(e) ==
    \/ Truthy(e.date_added_to_datahub)
    \/ e.datahub_project_status # DEFAULT

\* Preconditions with the resubmission guard evaluated first.
PreconditionsGuardFirst(e) ==
    IF AlreadySubmitted(e)
    THEN IF e.date_added_to_datahub = None
         THEN [kind |-> "raise", exc |-> "AttributeError", errors |-> <<>>]
         ELSE [kind |-> "return", exc |-> "none",
               errors |-> << Error("enquiry",
                                   << e.date_added_to_datahub,
                                      e.datahub_project_status >>) >>]
    ELSE IF CompanyMissing(e)
    THEN [kind |-> "return", exc |-> "none",
          errors |-> << Error("company", e.company_name) >>]
    ELSE [kind |-> "proceed", exc |-> "none", errors |-> <<>>]

\* lines 293-315: the two preconditions, in the order of the code.  Inside the
\* guard the date is formatted with strftime, which a None date does not have.
Preconditions(e) ==
    IF CompanyMissing(e)
    THEN [kind |-> "return", exc |-> "none",
          errors |-> << Error("company", e.company_name) >>]
    ELSE IF AlreadySubmitted(e)
    THEN IF e.date_added_to_datahub = None
         THEN [kind |-> "raise", exc |-> "AttributeError", errors |-> <<>>]
         ELSE [kind |-> "return", exc |-> "none",
               errors |-> << Error("enquiry",
                                   << e.date_added_to_datahub,
                                      e.datahub_project_status >>) >>]
    ELSE [kind |-> "proceed", exc |-> "none", errors |-> <<>>]

\* The call dh_investment_create(enquiry, metadata): the object is the row as
\* loaded by the caller; lines 293-315 run before anything is requested.
Begin(p) ==
    /\ pc[p] = "idle"
    /\ calls < MaxCalls
    /\ \E md \in {<<>>} \cup {<< m >> : m \in SuppliedMetadata} :
         LET pre == Preconditions(db)
         IN  /\ calls' = calls + 1
             /\ enquiry' = [enquiry EXCEPT ![p] = db]
             /\ metadata' = [metadata EXCEPT ![p] = md]
             /\ overlapped' = [q \in Procs |->
                                 IF q = p THEN \E r \in Procs \ {p} : Active(r)
                                 ELSE overlapped[q] \/ Active(q)]
             /\ succeeded' = [succeeded EXCEPT ![p] = ok_creates > 0]
             /\ pc' = [pc EXCEPT ![p] =
                         CASE pre.kind = "return" -> "returned"
                           [] pre.kind = "raise" -> "raised"
                           [] OTHER -> "metadata"]
             /\ exc' = [exc EXCEPT ![p] = pre.exc]
             /\ response' = [response EXCEPT ![p] =
                               [errors |-> pre.errors, result |-> <<>>]]
             /\ reqs' = [reqs EXCEPT ![p] = <<>>]
             /\ replies' = [replies EXCEPT ![p] = <<>>]
             /\ acquired' = [acquired EXCEPT ![p] = NotAcquired]
             /\ payload' = [payload EXCEPT ![p] = <<>>]
             /\ dh_metadata' = [dh_metadata EXCEPT ![p] = EmptyMetadata]
    /\ UNCHANGED <<db, clock, cache, projects, ok_creates, cacheVars, trial>>

AcquireMetadata(p) ==
    /\ pc[p] = "metadata"
    /\ \E cache_up \in BOOLEAN, responses \in SubmitResponses :
         LET out == AcquireOutcome(metadata[p], cache, cache_up, responses, p)
         IN  /\ cache' = out.slot
             /\ dh_metadata' = [dh_metadata EXCEPT ![p] = out.dh_metadata]
             /\ reqs' = [reqs EXCEPT ![p] =
                           IF out.fetched THEN Append(@, "metadata") ELSE @]
             /\ replies' = [replies EXCEPT ![p] =
                              IF out.fetched THEN Append(@, MetadataReply(out)) ELSE @]
             /\ acquired' = [acquired EXCEPT ![p] =
                               [source |-> out.source, vocabulary |-> out.vocabulary]]
             /\ exc' = [exc EXCEPT ![p] = out.exc]
             /\ response' = [response EXCEPT ![p].errors =
                               IF out.kind = "return"
                               THEN Append(@, Error("metadata", "Error fetching metadata"))
                               ELSE @]
             /\ pc' = [pc EXCEPT ![p] =
                         CASE out.kind = "return" -> "returned"
                           [] out.kind = "raise" -> "raised"
                           [] OTHER -> "contact_search"]
    /\ UNCHANGED <<db, clock, projects, calls, ok_creates, enquiry, metadata,
                   payload, overlapped, succeeded, cacheVars, trial>>

\* lines 333-371: from the contact search result to the adviser search.
AfterContacts(e, md, found) ==
    IF Truthy(found.error)
    THEN [kind |-> "return", exc |-> "none",
          errors |-> << Error("contact_search", found.error) >>]
    ELSE LET raised == FirstRaised(<<
                 IF e.estimated_land_date = None THEN "AttributeError" ELSE "none",
                 RequiredExc(md, "investment-type", "FDI"),
                 MappedExc(md, "fdi-type"),
                 RequiredExc(md, "investment-project-stage", "Prospect"),
                 MappedExc(md, "investment-investor-type"),
                 MappedExc(md, "investment-involvement"),
                 MappedExc(md, "investment-specific-programme") >>)
         IN  IF raised # "none"
             THEN [kind |-> "raise", exc |-> raised, errors |-> <<>>]
             ELSE IF ~Truthy(e.crm)
             THEN [kind |-> "return", exc |-> "none",
                   errors |-> << Error("adviser", "required") >>]
             ELSE [kind |-> "proceed", exc |-> "none", errors |-> <<>>]

\* Payload with the last adviser found as the referral source adviser.
PayloadLastAdviser(e, md, advisers) ==
    [name |-> e.company_name,
     investor_company |-> e.dh_company_id,
     estimated_land_date |-> e.estimated_land_date,
     investment_type |-> get_dh_id(md.cats["investment-type"], "FDI"),
     fdi_type |-> map_to_datahub_id(e.investment_type, md, "fdi-type"),
     stage |-> get_dh_id(md.cats["investment-project-stage"], "Prospect"),
     client_relationship_manager |-> advisers[1].datahub_id,
     sector |-> map_to_datahub_id(e.primary_sector, md, "sector"),
     referral_source_adviser |-> advisers[Len(advisers)].datahub_id,
     referral_source_activity |->
         get_dh_id(md.cats["referral-source-activity"], "Website"),
     referral_source_activity_website |->
         get_dh_id(md.cats["referral-source-website"], "Invest in GREAT Britain")]

\* lines 340-397: the creation payload (the fields that vary in this model).
Payload(e, md, advisers) ==
    [name |-> e.company_name,
     investor_company |-> e.dh_company_id,
     estimated_land_date |-> e.estimated_land_date,
     investment_type |-> get_dh_id(md.cats["investment-type"], "FDI"),
     fdi_type |-> map_to_datahub_id(e.investment_type, md, "fdi-type"),
     stage |-> get_dh_id(md.cats["investment-project-stage"], "Prospect"),
     client_relationship_manager |-> advisers[1].datahub_id,
     sector |-> map_to_datahub_id(e.primary_sector, md, "sector"),
     referral_source_adviser |-> advisers[1].datahub_id,
     referral_source_activity |->
         get_dh_id(md.cats["referral-source-activity"], "Website"),
     referral_source_activity_website |->
         get_dh_id(md.cats["referral-source-website"], "Invest in GREAT Britain")]

\* AfterAdvisers without the return after the adviser_search error: the
\* check of the (empty) list of advisers follows it.
AfterAdvisersNoReturn(e, md, found) ==
    IF Truthy(found.error)
    THEN [kind |-> "return", exc |-> "none", payload |-> <<>>,
          errors |-> << Error("adviser_search", found.error),
                        Error("adviser", "not found") >>]
    ELSE IF found.list = <<>>
    THEN [kind |-> "return", exc |-> "none", payload |-> <<>>,
          errors |-> << Error("adviser", "not found") >>]
    ELSE LET raised == FirstRaised(<<
                 MappedExc(md, "sector"),
                 RequiredExc(md, "referral-source-activity", "Website"),
                 RequiredExc(md, "referral-source-website",
                             "Invest in GREAT Britain") >>)
         IN  IF raised # "none"
             THEN [kind |-> "raise", exc |-> raised, payload |-> <<>>, errors |-> <<>>]
             ELSE [kind |-> "proceed", exc |-> "none", errors |-> <<>>,
                   payload |-> << Payload(e, md, found.list) >>]

\* lines 374-397: from the adviser search result to the creation request.
AfterAdvisers(e, md, found) ==
    IF Truthy(found.error)
    THEN [kind |-> "return", exc |-> "none", payload |-> <<>>,
          errors |-> << Error("adviser_search", found.error) >>]
    ELSE IF found.list = <<>>
    THEN [kind |-> "return", exc |-> "none", payload |-> <<>>,
          errors |-> << Error("adviser", "not found") >>]
    ELSE LET raised == FirstRaised(<<
                 MappedExc(md, "sector"),
                 RequiredExc(md, "referral-source-activity", "Website"),
                 RequiredExc(md, "referral-source-website",
                             "Invest in GREAT Britain") >>)
         IN  IF raised # "none"
             THEN [kind |-> "raise", exc |-> raised, payload |-> <<>>, errors |-> <<>>]
             ELSE [kind |-> "proceed", exc |-> "none", errors |-> <<>>,
                   payload |-> << Payload(e, md, found.list) >>]

\* A step of invocation p that ends as out says, after sending request req.
Step(p, req, out, next) ==
    /\ reqs' = [reqs EXCEPT ![p] = Append(@, req)]
    /\ exc' = [exc EXCEPT ![p] = out.exc]
    /\ response' = [response EXCEPT ![p].errors = @ \o out.errors]
    /\ pc' = [pc EXCEPT ![p] =
                CASE out.kind = "return" -> "returned"
                  [] out.kind = "raise" -> "raised"
                  [] OTHER -> next]

\* lines 331-371: the contact search and the first part of the payload.
ContactSearch(p) ==
    /\ pc[p] = "contact_search"
    /\ \E answer \in ContactAnswers :
         LET out == IF answer.kind = "timeout"
                    THEN [kind |-> "raise", exc |-> "RequestException", errors |-> <<>>]
                    ELSE AfterContacts(enquiry[p], dh_metadata[p],
                                       dh_contact_search(answer))
         IN  /\ Step(p, "contact_search", out, "adviser_search")
             /\ replies' = [replies EXCEPT ![p] = Append(@, answer)]
    /\ UNCHANGED <<db, clock, cache, projects, calls, ok_creates, enquiry, metadata,
                   dh_metadata, acquired, payload, overlapped, succeeded, cacheVars,
                   trial>>

\* lines 373-397: the adviser search and the rest of the payload.
AdviserSearch(p) ==
    /\ pc[p] = "adviser_search"
    /\ \E answer \in AdviserAnswers :
         LET out == IF answer.kind = "timeout"
                    THEN [kind |-> "raise", exc |-> "RequestException",
                          errors |-> <<>>, payload |-> <<>>]
                    ELSE AfterAdvisers(enquiry[p], dh_metadata[p],
                                       dh_adviser_search(answer))
         IN  /\ Step(p, "adviser_search", out, "investment_create")
             /\ payload' = [payload EXCEPT ![p] = out.payload]
             /\ replies' = [replies EXCEPT ![p] = Append(@, answer)]
    /\ UNCHANGED <<db, clock, cache, projects, calls, ok_creates, enquiry, metadata,
                   dh_metadata, acquired, overlapped, succeeded, cacheVars, trial>>

\* ShouldSave without the test of the response.
ShouldSaveAlways(result) == TRUE

\* line 408: "if result.ok"
ShouldSave(result) == ok(result)

\* Saved with nothing changed (the update is lost).
SavedNothing(e, day) == e

\* Saved with the status alone advanced.
SavedStatusOnly(e, day) == [e EXCEPT !.datahub_project_status = PROSPECT]

\* lines 409-411: both fields are set on the object, then the object is saved.
Saved(e, day) ==
    [e EXCEPT !.datahub_project_status = PROSPECT, !.date_added_to_datahub = day]

\* Created with a non-success answer turned into an error as well.
CreatedErrorOnFailure(answer) ==
    IF answer.kind = "timeout" \/ ~ok(answer)
    THEN [errors |-> << Error("investment_create", "timeout") >>, result |-> <<>>]
    ELSE [errors |-> <<>>, result |-> << answer >>]

\* lines 400-406: the response is kept as the result whatever its status; an
\* exception of the request becomes the "investment_create" error.
Created(answer) ==
    IF answer.kind = "timeout"
    THEN [errors |-> << Error("investment_create", "timeout") >>, result |-> <<>>]
    ELSE [errors |-> <<>>, result |-> << answer >>]

\* lines 399-413: the creation request, and the update of the enquiry.
InvestmentCreate(p) ==
    /\ pc[p] = "investment_create"
    /\ \E answer \in CreateAnswers :
         /\ projects' = projects + (IF answer.processed THEN 1 ELSE 0)
         /\ reqs' = [reqs EXCEPT ![p] = Append(@, "investment_create")]
         /\ replies' = [replies EXCEPT ![p] = Append(@, answer)]
         /\ pc' = [pc EXCEPT ![p] = "returned"]
         /\ response' = [response EXCEPT ![p].errors = @ \o Created(answer).errors,
                                         ![p].result = Created(answer).result]
         /\ IF answer.kind = "timeout"
            THEN UNCHANGED <<db, ok_creates>>
            ELSE /\ ok_creates' = ok_creates + (IF ok(answer) THEN 1 ELSE 0)
                 /\ db' = IF ShouldSave(answer) THEN Saved(enquiry[p], today) ELSE db
    /\ UNCHANGED <<clock, cache, calls, enquiry, metadata, dh_metadata, exc,
                   acquired, payload, overlapped, succeeded, cacheVars, trial>>

\* The invocation is over; its caller may call again.
Return(p) ==
    /\ pc[p] \in {"returned", "raised"}
    /\ pc' = [pc EXCEPT ![p] = "idle"]
    /\ enquiry' = [enquiry EXCEPT ![p] = db]
    /\ metadata' = [metadata EXCEPT ![p] = <<>>]
    /\ dh_metadata' = [dh_metadata EXCEPT ![p] = EmptyMetadata]
    /\ response' = [response EXCEPT ![p] = EmptyResponse]
    /\ exc' = [exc EXCEPT ![p] = "none"]
    /\ reqs' = [reqs EXCEPT ![p] = <<>>]
    /\ replies' = [replies EXCEPT ![p] = <<>>]
    /\ acquired' = [acquired EXCEPT ![p] = NotAcquired]
    /\ payload' = [payload EXCEPT ![p] = <<>>]
    /\ overlapped' = [overlapped EXCEPT ![p] = FALSE]
    /\ succeeded' = [succeeded EXCEPT ![p] = FALSE]
    /\ UNCHANGED <<db, clock, cache, projects, calls, ok_creates, cacheVars, trial>>

\* Midnight passes.
Tick ==
    /\ clock < Len(Days)
    /\ clock' = clock + 1
    /\ UNCHANGED <<db, cache, projects, calls, ok_creates, pc, enquiry, metadata,
                   dh_metadata, response, exc, reqs, replies, acquired, payload,
                   overlapped, succeeded, cacheVars, trial>>

\* The cached metadata expires (the slot reads as empty from then on).
Expire ==
    /\ cache # <<>>
    /\ cache' = <<>>
    /\ UNCHANGED <<submitVars, cacheVars, trial>>

Next ==
    \/ \E p \in Procs :
         \/ Begin(p)
         \/ AcquireMetadata(p)
         \/ ContactSearch(p)
         \/ AdviserSearch(p)
         \/ InvestmentCreate(p)
         \/ Return(p)
    \/ Tick
    \/ Expire

Spec == Init /\ [][Next]_vars

\* ------------------------------------------------------------ dh_fetch_metadata, step by step
\* lines 115-124: the call, up to the first GET of a refresh.  cache.get may
\* fail (the cache backend is down: the exception is logged and re-raised).
CallFetch(c) ==
    /\ cpc[c] = "idle"
    /\ refreshes < MaxRefreshes
    /\ refreshes' = refreshes + 1
    /\ \E cache_up \in BOOLEAN :
         IF ~cache_up
         THEN /\ cpc' = [cpc EXCEPT ![c] = "raised"]
              /\ canswers' = [canswers EXCEPT ![c] = << "cache down" >>]
              /\ UNCHANGED cret
         ELSE IF CacheMiss(cache)
         THEN /\ cpc' = [cpc EXCEPT ![c] = "fetching"]
              /\ UNCHANGED <<cret, canswers>>
         ELSE /\ cpc' = [cpc EXCEPT ![c] = "done"]
              /\ cret' = [cret EXCEPT ![c] = << cache[1] >>]
              /\ UNCHANGED canswers
    /\ UNCHANGED <<submitVars, cache, cidx, cmeta, cgets, failures, trial>>

\* lines 79-98 for one endpoint; after the last one lines 100-105 and 120-121.
FetchEndpoint(c) ==
    /\ cpc[c] = "fetching"
    /\ LET endpoint == DATA_HUB_METADATA_ENDPOINTS[cidx[c]]
       IN  \E resp \in {"ok", "error", "timeout"} :
             /\ resp # "ok" => failures < MaxFailures
             /\ failures' = failures + (IF resp = "ok" THEN 0 ELSE 1)
             /\ cgets' = [cgets EXCEPT ![c] = Append(@, endpoint)]
             /\ canswers' = [canswers EXCEPT ![c] = Append(@, resp)]
             /\ IF resp = "timeout"
                THEN /\ cpc' = [cpc EXCEPT ![c] = "raised"]
                     /\ cmeta' = [cmeta EXCEPT ![c] = EmptyMetadata]
                     /\ UNCHANGED <<cache, cidx, cret>>
                ELSE LET md == FetchOne(cmeta[c], endpoint, resp, c)
                     IN  /\ cmeta' = [cmeta EXCEPT ![c] = md]
                         /\ cache' = SlotAfter(cache, md, cidx[c])
                         /\ IF cidx[c] = NumEndpoints
                            THEN /\ cpc' = [cpc EXCEPT ![c] = "done"]
                                 /\ cret' = [cret EXCEPT ![c] = << md >>]
                                 /\ UNCHANGED cidx
                            ELSE /\ cidx' = [cidx EXCEPT ![c] = @ + 1]
                                 /\ UNCHANGED <<cpc, cret>>
    /\ UNCHANGED <<submitVars, refreshes, trial>>

\* The call is over; the caller may call again.
CallerReturn(c) ==
    /\ cpc[c] \in {"done", "raised"}
    /\ cpc' = [cpc EXCEPT ![c] = "idle"]
    /\ cidx' = [cidx EXCEPT ![c] = 1]
    /\ cmeta' = [cmeta EXCEPT ![c] = EmptyMetadata]
    /\ cret' = [cret EXCEPT ![c] = <<>>]
    /\ cgets' = [cgets EXCEPT ![c] = <<>>]
    /\ canswers' = [canswers EXCEPT ![c] = <<>>]
    /\ UNCHANGED <<submitVars, cache, refreshes, failures, trial>>

NextCache ==
    \/ \E c \in Callers :
         \/ CallFetch(c)
         \/ FetchEndpoint(c)
         \/ CallerReturn(c)
    \/ Expire

\* No submission takes part: the enquiry is any one row.
InitCache ==
    /\ Init
    /\ db = [company_name |-> "Test company", dh_company_id |-> "1234-2468",
             date_added_to_datahub |-> None, datahub_project_status |-> DEFAULT,
             crm |-> "Data Hub user 1", estimated_land_date |-> Days[3],
             primary_sector |-> "Aerospace", investment_type |-> "Acquisition"]

\* Concurrent callers of dh_fetch_metadata on the one cache slot.
SpecCache == InitCache /\ [][NextCache]_vars

\* One invocation at a time: a call begins only when no other is in progress.
BeginSeq(p) ==
    /\ \A q \in Procs \ {p} : ~Active(q)
    /\ Begin(p)

NextSeq ==
    \/ \E p \in Procs :
         \/ BeginSeq(p)
         \/ AcquireMetadata(p)
         \/ ContactSearch(p)
         \/ AdviserSearch(p)
         \/ InvestmentCreate(p)
         \/ Return(p)
    \/ Tick
    \/ Expire

\* A sequential series of invocations on the one enquiry.
SpecSeq == Init /\ [][NextSeq]_vars

\* The enquiry has never been submitted when the behaviour starts.
InitFresh ==
    /\ Init
    /\ db.datahub_project_status = DEFAULT
    /\ db.date_added_to_datahub = None

SpecFresh == InitFresh /\ [][Next]_vars

\* ------------------------------------------------------------ single calls
\* dh_request or a search adapter is called on its own, the remote system
\* answers, the caller takes the outcome.
CallRequest ==
    /\ trial.fn = "none"
    /\ \E method \in {"GET", "POST", "PUT"} :
         trial' = [fn |-> "dh_request", method |-> method, stage |-> "called"]
    /\ UNCHANGED <<submitVars, cache, cacheVars>>

CallSearch ==
    /\ trial.fn = "none"
    /\ \E fn \in Adapters :
         trial' = [fn |-> fn, method |-> MethodOf(fn), stage |-> "called"]
    /\ UNCHANGED <<submitVars, cache, cacheVars>>

Answer ==
    /\ trial.fn # "none"
    /\ trial.stage = "called"
    /\ \E answer \in TrialAnswers :
         trial' = [fn |-> trial.fn, method |-> trial.method, stage |-> "done",
                   answer |-> answer,
                   out |-> IF trial.fn = "dh_request"
                           THEN dh_request(trial.method, answer)
                           ELSE Search(trial.fn, answer)]
    /\ UNCHANGED <<submitVars, cache, cacheVars>>

TakeOutcome ==
    /\ trial.fn # "none"
    /\ trial.stage = "done"
    /\ trial' = NoTrial
    /\ UNCHANGED <<submitVars, cache, cacheVars>>

NextAdapters == CallRequest \/ CallSearch \/ Answer \/ TakeOutcome

SpecAdapters == InitCache /\ [][NextAdapters]_vars

\* ------------------------------------------------------------ mapper calls
\* The entries of one metadata category, up to MaxLen of them; ids and names
\* may repeat.
Entries == [id : {"a", "b"}, name : {"FDI", "Non-FDI"}]

RECURSIVE ListsUpTo(_)
ListsUpTo(n) ==
    IF n = 0 THEN {<<>>}
    ELSE LET L == ListsUpTo(n - 1)
         IN  L \cup {Append(l, e) : l \in {k \in L : Len(k) = n - 1}, e \in Entries}

\* A dictionary holding the one category.
WithCategory(dh_category, items) ==
    [EmptyMetadata EXCEPT !.cats = (dh_category :> items),
                          !.by = (dh_category :> 0)]

CallMapper ==
    /\ trial.fn = "none"
    /\ \E fn \in {"map_to_datahub_id", "get_dh_id"}, items \in ListsUpTo(MaxLen),
          name \in {"FDI", "Non-FDI"} :
         trial' = [fn |-> fn, stage |-> "called", items |-> items, name |-> name]
    /\ UNCHANGED <<submitVars, cache, cacheVars>>

\* The body of the mapper: map_to_datahub_id returns an id or None, get_dh_id
\* returns an id or fails its assertion.
ApplyMapper ==
    /\ trial.fn \in {"map_to_datahub_id", "get_dh_id"}
    /\ trial.stage = "called"
    /\ trial' = [trial EXCEPT !.stage = "done"] @@
                 ("out" :>
                    IF trial.fn = "map_to_datahub_id"
                    THEN [kind |-> "return", exc |-> "none",
                          value |-> map_to_datahub_id(
                                        trial.name,
                                        WithCategory("investment-type", trial.items),
                                        "investment-type")]
                    ELSE IF get_dh_id_asserts(trial.items, trial.name)
                    THEN [kind |-> "return", exc |-> "none",
                          value |-> get_dh_id(trial.items, trial.name)]
                    ELSE [kind |-> "raise", exc |-> "AssertionError",
                          value |-> None])
    /\ UNCHANGED <<submitVars, cache, cacheVars>>

NextMapper == CallMapper \/ ApplyMapper \/ TakeOutcome

SpecMapper == InitCache /\ [][NextMapper]_vars

\* ------------------------------------------------------------ claims
Sent(p, req) == \E i \in 1..Len(reqs[p]) : reqs[p][i] = req

\* The invocation returned a response with exactly one error, under key.
ReturnedOnly(p, key) ==
    /\ pc[p] = "returned"
    /\ Len(response[p].errors) = 1
    /\ response[p].errors[1].key = key
    /\ response[p].result = <<>>

\* C1: an invocation given an enquiry that has a company id and a date of
\* submission or a status other than DEFAULT (either alone suffices) returns
\* exactly one error under "enquiry" and sends no request.
C1_ResubmissionRefused ==
    \A p \in Procs :
        (/\ pc[p] # "idle"
         /\ enquiry[p].dh_company_id # None
         /\ \/ enquiry[p].date_added_to_datahub # None
            \/ enquiry[p].datahub_project_status # DEFAULT)
        => ReturnedOnly(p, "enquiry") /\ reqs[p] = <<>>

\* C2: in a sequential series of invocations, one begun after a creation
\* request was answered with success returns exactly one error under
\* "enquiry" and sends no request; so at most one creation request is ever
\* answered with success.
C2_SecondSubmitRefused ==
    /\ ok_creates <= 1
    /\ \A p \in Procs :
         (pc[p] # "idle" /\ succeeded[p])
         => ReturnedOnly(p, "enquiry") /\ reqs[p] = <<>>

C2_Witness ==
    \E p \in Procs :
        /\ succeeded[p]
        /\ ReturnedOnly(p, "enquiry")
        /\ calls >= 2

\* C3: of two invocations that overlap on an enquiry not yet submitted, at
\* most one sends the creation request.
C3_OnceOnlyUnderInterleaving ==
    \A p, q \in Procs :
        (/\ p # q
         /\ overlapped[p] /\ overlapped[q]
         /\ ~AlreadySubmitted(enquiry[p]) /\ ~AlreadySubmitted(enquiry[q]))
        => ~(Sent(p, "investment_create") /\ Sent(q, "investment_create"))

\* C4: the persisted enquiry changes only in the step in which an invocation
\* receives a success response to its creation request (and that invocation
\* returns no error).
C4_MutationOnlyAfterSuccess ==
    [][db' # db =>
         \E p \in Procs :
             /\ pc[p] = "investment_create"
             /\ pc'[p] = "returned"
             /\ response'[p].errors = <<>>
             /\ response'[p].result # <<>>
             /\ response'[p].result[1].kind = "http"
             /\ response'[p].result[1].status < 400]_vars

C4_Witness ==
    \E p \in Procs :
        /\ pc[p] = "returned"
        /\ Sent(p, "investment_create")
        /\ response[p].result # <<>>
        /\ response[p].result[1].status < 400
        /\ enquiry[p].datahub_project_status = DEFAULT
        /\ db.datahub_project_status = PROSPECT

\* C5: an invocation given an enquiry without a company id returns exactly
\* one error under "company" whatever the date and status are, sends no
\* request, and the step that runs it leaves the persisted enquiry unchanged.
C5_CompanyCheckedFirst ==
    /\ [](\A p \in Procs :
            (pc[p] # "idle" /\ enquiry[p].dh_company_id = None)
            => ReturnedOnly(p, "company") /\ reqs[p] = <<>>)
    /\ [][\A p \in Procs :
            (pc[p] = "idle" /\ pc'[p] # "idle" /\ db.dh_company_id = None)
            => db' = db /\ cache' = cache]_vars

C5_Witness ==
    \E p \in Procs :
        /\ ReturnedOnly(p, "company")
        /\ enquiry[p].dh_company_id = None
        /\ enquiry[p].datahub_project_status # DEFAULT
        /\ enquiry[p].date_added_to_datahub = None

\* C6: no exception escapes an invocation, except the failed lookup of a
\* pipeline constant in the metadata (the assertion of get_dh_id, or the
\* KeyError of a category that is not there).
C6_NoExceptionEscapes ==
    \A p \in Procs :
        pc[p] = "raised" => exc[p] \in {"AssertionError", "KeyError"}

\* C7: a response never holds more than one error, and an invocation that
\* has recorded an error has returned.
C7_AtMostOneError ==
    \A p \in Procs :
        /\ Len(response[p].errors) <= 1
        /\ response[p].errors # <<>> => pc[p] = "returned"

C7_Witness ==
    \E p \in Procs :
        /\ pc[p] = "returned"
        /\ Sent(p, "adviser_search")
        /\ Len(response[p].errors) = 1
        /\ response[p].errors[1].key = "adviser_search"

\* C8: starting from an enquiry never submitted, the persisted status is
\* PROSPECT exactly when the persisted date is set, and a status of PROSPECT
\* never changes again.
C8_FieldsUpdatedTogether ==
    /\ [](db.datahub_project_status = PROSPECT <=> db.date_added_to_datahub # None)
    /\ [][db.datahub_project_status = PROSPECT
            => db'.datahub_project_status = PROSPECT]_vars

C8_Witness ==
    /\ db.datahub_project_status = PROSPECT
    /\ db.date_added_to_datahub = today
    /\ \E p \in Procs : succeeded[p] /\ pc[p] = "returned"

\* The positions of the answers of caller c that are of one of the kinds.
AnswersOf(c, kinds) == {i \in 1..Len(canswers[c]) : canswers[c][i] \in kinds}

\* The call of c got past the cache read and no GET of it raised.
NoTransportFailure(c) == AnswersOf(c, {"timeout", "cache down"}) = {}

\* The value returned to c is the remote metadata without the categories of F,
\* with exactly F in its "failed" list.
ReturnedWithout(c, F) ==
    /\ cret[c] # <<>>
    /\ cret[c][1].failed = SelectSeq(DATA_HUB_METADATA_ENDPOINTS, LAMBDA e : e \in F)
    /\ DOMAIN cret[c][1].cats = EndpointSet \ F
    /\ \A e \in EndpointSet \ F : cret[c][1].cats[e] = RemoteMetadata[e]

\* C9 (as amended): a refresh in which GETs are answered with a non-success
\* status, and none fails in transport, does not raise: every endpoint is
\* still requested, in order, and when exactly one was answered with a
\* non-success status the value returned holds the other nine categories
\* and names exactly that one as failed.
C9_PartialRefreshOnHttpError ==
    \A c \in Callers :
        NoTransportFailure(c) =>
            /\ cpc[c] # "raised"
            /\ cpc[c] = "fetching" =>
                 cgets[c] = SubSeq(DATA_HUB_METADATA_ENDPOINTS, 1, cidx[c] - 1)
            /\ (cpc[c] = "done" /\ cgets[c] # <<>>) =>
                 /\ cgets[c] = DATA_HUB_METADATA_ENDPOINTS
                 /\ LET bad == AnswersOf(c, {"error"})
                    IN  Cardinality(bad) = 1 =>
                          ReturnedWithout(c, {cgets[c][i] : i \in bad})

C9_Witness ==
    \E c \in Callers :
        /\ cpc[c] = "done"
        /\ Cardinality(AnswersOf(c, {"error"})) = 1
        /\ canswers[c][1] = "error"
        /\ Len(cret[c][1].failed) = 1
        /\ Cardinality(DOMAIN cret[c][1].cats) = NumEndpoints - 1

\* C9 (as claimed): the same when the one fetch fails by a non-success status
\* or by a transport failure: the call does not raise.
C9_PartialRefreshOnAnyFailure ==
    \A c \in Callers :
        (Cardinality(AnswersOf(c, {"error", "timeout"})) = 1
         /\ AnswersOf(c, {"cache down"}) = {})
        => cpc[c] # "raised"

\* C10: the cache slot is empty or holds the whole result of one refresh:
\* every endpoint accounted for, as a loaded category or as a failed one, all
\* of them by the same caller.
C10_WholeValueOfOneRefresh ==
    cache = <<>> \/
        LET v == cache[1]
        IN  /\ DOMAIN v.by = EndpointSet
            /\ \E c \in Callers : \A e \in EndpointSet : v.by[e] = c
            /\ \A e \in EndpointSet :
                 (e \in DOMAIN v.cats) # (\E i \in 1..Len(v.failed) : v.failed[i] = e)

\* Both callers refreshed at the same time and the slot holds the value of
\* one of them, which differs from what the other collected.
C10_Witness ==
    /\ \A c \in Callers : cpc[c] = "done" /\ Len(cgets[c]) = NumEndpoints
    /\ cret[1] # cret[2]
    /\ cache = cret[1]
    /\ cret[1][1].failed # <<>>

\* HTTP success: a status in the 2xx range.
Success(answer) == answer.kind = "http" /\ answer.status \in 200..299

SearchDone(fn) == trial.fn = fn /\ trial.stage = "done"

\* C11: whichever search adapter is called and however the remote system
\* answers, a non-success status is returned as the pair (empty list, the body
\* as parsed), a success status as (one normalized record per result, in the
\* same order, None), and a transport failure leaves the adapter as an
\* exception.
C11_SearchAdapterContract ==
    \A fn \in Adapters :
        SearchDone(fn) =>
            LET a == trial.answer
                o == trial.out
            IN  /\ a.kind = "timeout" => o.kind = "raise"
                /\ a.kind = "http" /\ ~Success(a) =>
                        /\ o.kind = "return"
                        /\ o.list = <<>>
                        /\ o.error = a.body
                /\ Success(a) =>
                        /\ o.kind = "return"
                        /\ o.error = None
                        /\ Len(o.list) = Len(a.results)
                        /\ \A i \in 1..Len(a.results) :
                               o.list[i].datahub_id = a.results[i]

\* The invocation is over: it returned a response or an exception left it.
Ended(p) == pc[p] \in {"returned", "raised"}

\* The entries get_dh_id looks up, each by category and display name.
RequiredConstants ==
    {<<"investment-type", "FDI">>, <<"investment-project-stage", "Prospect">>,
     <<"referral-source-activity", "Website">>,
     <<"referral-source-website", "Invest in GREAT Britain">>}

\* Invocation p was given or obtained a vocabulary in which every required
\* constant is listed exactly once.
VocabularyFound(p) ==
    /\ acquired[p].vocabulary # <<>>
    /\ \A rc \in RequiredConstants :
           /\ HasCategory(acquired[p].vocabulary[1], rc[1])
           /\ Len(Matching(acquired[p].vocabulary[1].cats[rc[1]], rc[2])) = 1

\* Every request that invocation p sent was answered with success, the
\* adviser search with at least one adviser.
EveryReplyGood(p) ==
    \A i \in 1..Len(reqs[p]) :
        CASE reqs[p][i] = "metadata" -> ~replies[p][i].raised
          [] reqs[p][i] = "adviser_search" ->
                 Success(replies[p][i]) /\ replies[p][i].results # <<>>
          [] OTHER -> Success(replies[p][i])

EveryStepSucceeds(p) ==
    /\ enquiry[p].dh_company_id # None
    /\ enquiry[p].date_added_to_datahub = None
    /\ enquiry[p].datahub_project_status = DEFAULT
    /\ enquiry[p].crm # ""
    /\ VocabularyFound(p)
    /\ EveryReplyGood(p)

SubmittedToday(p) ==
    /\ pc[p] = "returned"
    /\ response[p].errors = <<>>
    /\ Sent(p, "investment_create")
    /\ response[p].result = << replies[p][Len(replies[p])] >>
    /\ db.datahub_project_status = PROSPECT
    /\ db.date_added_to_datahub = today

\* C12: an invocation for an enquiry with a company id, not yet submitted and
\* with a relationship manager, that has a vocabulary with every required
\* constant exactly once and is answered with success at every request, ends
\* by returning no error and the remote response as result, with the row
\* saved as PROSPECT on the current date.
C12_HappyPath ==
    [][\A p \in Procs :
          (~Ended(p) /\ Ended(p)' /\ EveryStepSucceeds(p)') => SubmittedToday(p)']_vars

\* The positions of the entries of items whose name is name.
Hits(items, name) == {i \in 1..Len(items) : items[i].name = name}

FirstHit(items, name) ==
    CHOOSE i \in Hits(items, name) : \A j \in Hits(items, name) : i <= j

MapperDone(fn) == trial.fn = fn /\ trial.stage = "done"

\* C13: map_to_datahub_id returns the id of the matching entry that comes
\* first in the list, and None when no entry matches; get_dh_id returns the
\* id of the matching entry when exactly one matches and fails otherwise.
C13_FirstMatchOrNone ==
    /\ MapperDone("map_to_datahub_id") =>
          /\ trial.out.kind = "return"
          /\ trial.out.value =
                IF Hits(trial.items, trial.name) = {} THEN None
                ELSE trial.items[FirstHit(trial.items, trial.name)].id
    /\ MapperDone("get_dh_id") =>
          IF Cardinality(Hits(trial.items, trial.name)) = 1
          THEN /\ trial.out.kind = "return"
               /\ trial.out.value = trial.items[FirstHit(trial.items, trial.name)].id
          ELSE trial.out.kind = "raise"

\* Several entries match, with different ids, and the first one is returned.
C13_Witness ==
    /\ MapperDone("map_to_datahub_id")
    /\ \E i, j \in Hits(trial.items, trial.name) :
           i < j /\ trial.items[i].id # trial.items[j].id
    /\ trial.out.value = trial.items[FirstHit(trial.items, trial.name)].id

\* C14: whatever the method and however the remote system answers, a call of
\* dh_request ends in one of two ways: it returns the response that was
\* received, whatever its status, or a transport failure was logged once and
\* the request exception is raised.
C14_ResponseOrTransportError ==
    (trial.fn = "dh_request" /\ trial.stage = "done") =>
        \/ /\ trial.answer.kind = "http"
           /\ trial.out.kind = "return"
           /\ trial.out.response = << trial.answer >>
           /\ trial.out.logged = 0
        \/ /\ trial.answer.kind = "timeout"
           /\ trial.out.kind = "raise"
           /\ trial.out.exc = "RequestException"
           /\ trial.out.logged = 1

\* The answer that invocation p received to its request req (sent once).
ReplyTo(p, req) ==
    replies[p][CHOOSE i \in 1..Len(reqs[p]) : reqs[p][i] = req]

\* C15: the payload of a creation request names, as client relationship
\* manager and as referral source adviser, the id of the first result of the
\* adviser search of the same invocation.
C15_FirstAdviserInBothFields ==
    \A p \in Procs :
        /\ Sent(p, "investment_create") => payload[p] # <<>>
        /\ payload[p] # <<>> =>
              /\ Sent(p, "adviser_search")
              /\ ReplyTo(p, "adviser_search").results # <<>>
              /\ payload[p][1].client_relationship_manager =
                     ReplyTo(p, "adviser_search").results[1]
              /\ payload[p][1].referral_source_adviser =
                     ReplyTo(p, "adviser_search").results[1]

\* A creation request was sent after an adviser search with two results.
C15_Witness ==
    \E p \in Procs :
        /\ Sent(p, "investment_create")
        /\ Len(ReplyTo(p, "adviser_search").results) = 2
        /\ payload[p][1].client_relationship_manager = "Y"
        /\ payload[p][1].referral_source_adviser = "Y"

\* C16: an invocation called without metadata, to which dh_fetch_metadata
\* returned a dictionary (cached or just fetched), works with that dictionary
\* and goes on to the contact search.
C16_FetchedVocabularyUsed ==
    \A p \in Procs :
        (metadata[p] = <<>> /\ acquired[p].source \in {"cache", "refresh"}) =>
            /\ dh_metadata[p] = acquired[p].vocabulary[1]
            /\ pc[p] = "contact_search" \/ Sent(p, "contact_search")

\* Invocation p got through the company check, the resubmission guard, the
\* metadata and a contact search answered with success.
PassedContactSearch(p) ==
    /\ enquiry[p].dh_company_id # None
    /\ enquiry[p].date_added_to_datahub = None
    /\ enquiry[p].datahub_project_status = DEFAULT
    /\ acquired[p].vocabulary # <<>>
    /\ Sent(p, "contact_search")
    /\ Success(ReplyTo(p, "contact_search"))

\* C17: an invocation that got as far as a successful contact search for an
\* enquiry without a relationship manager returns exactly one error, under
\* "adviser", whatever its metadata dictionary holds, and sends neither the
\* adviser search nor the creation request.
C17_AdviserCheckedBeforeLookups ==
    \A p \in Procs :
        (Ended(p) /\ PassedContactSearch(p) /\ enquiry[p].crm = "") =>
            /\ ReturnedOnly(p, "adviser")
            /\ ~Sent(p, "adviser_search")
            /\ ~Sent(p, "investment_create")

\* The contact search of invocation p was answered with a non-success status.
ContactSearchRefused(p) ==
    /\ Sent(p, "contact_search")
    /\ ReplyTo(p, "contact_search").kind = "http"
    /\ ~Success(ReplyTo(p, "contact_search"))

\* C18: an invocation whose contact search is answered with a non-success
\* status returns exactly one error, under "contact_search" and holding the
\* body of the answer whatever it is, and sends neither the adviser search
\* nor the creation request.
C18_ContactSearchErrorStops ==
    \A p \in Procs :
        ContactSearchRefused(p) =>
            /\ ReturnedOnly(p, "contact_search")
            /\ response[p].errors[1] =
                   Error("contact_search", ReplyTo(p, "contact_search").body)
            /\ ~Sent(p, "adviser_search")
            /\ ~Sent(p, "investment_create")

\* The requests of invocation p after the metadata: the searches and the
\* creation request.
PipelineRequests(p) == SelectSeq(reqs[p], LAMBDA r : r # "metadata")

PipelineOrder == <<"contact_search", "adviser_search", "investment_create">>

\* The request of invocation p to which req is the next one succeeded: a
\* success status, and at least one adviser if it is the adviser search.
EndedWithoutError(p, req) ==
    /\ Success(ReplyTo(p, req))
    /\ req = "adviser_search" => ReplyTo(p, req).results # <<>>

\* C19: the searches and the creation request of one invocation are sent in
\* the order contact search, adviser search, creation request, none of them
\* twice (so none is repeated after a transport failure), and each only
\* after the one before it was answered with success, the creation request
\* only after an adviser search that found an adviser.
C19_FixedOrderEachGated ==
    \A p \in Procs :
        /\ Len(PipelineRequests(p)) <= Len(PipelineOrder)
        /\ \A i \in 1..Len(PipelineRequests(p)) :
               /\ PipelineRequests(p)[i] = PipelineOrder[i]
               /\ i > 1 => EndedWithoutError(p, PipelineOrder[i - 1])

\* C20: a creation request that fails in transport gives exactly one error,
\* under "investment_create", and no result; one answered with a non-success
\* status gives no error and that response as the result, and the step leaves
\* the row as it was, not submitted, so that the resubmission guard lets a
\* later invocation pass.
C20_CreateFailureOutcomes ==
    /\ [](\A p \in Procs :
            Sent(p, "investment_create") =>
                /\ ReplyTo(p, "investment_create").kind = "timeout" =>
                       ReturnedOnly(p, "investment_create")
                /\ (ReplyTo(p, "investment_create").kind = "http"
                        /\ ~Success(ReplyTo(p, "investment_create"))) =>
                       /\ pc[p] = "returned"
                       /\ response[p].errors = <<>>
                       /\ response[p].result = << ReplyTo(p, "investment_create") >>)
    /\ [][\A p \in Procs :
            (/\ pc[p] = "investment_create"
             /\ Sent(p, "investment_create")'
             /\ ReplyTo(p, "investment_create")'.kind = "http"
             /\ ~Success(ReplyTo(p, "investment_create")')) =>
                db' = db /\ ~AlreadySubmitted(db')]_vars

\* One invocation got a non-success answer to its creation request, and the
\* next one for the same enquiry has passed the resubmission guard.
C20_Witness ==
    \E p, q \in Procs :
        /\ p # q
        /\ Sent(p, "investment_create")
        /\ ReplyTo(p, "investment_create").kind = "http"
        /\ ~Success(ReplyTo(p, "investment_create"))
        /\ response[p].result # <<>>
        /\ pc[q] = "metadata"

\* The categories the payload reads through map_to_datahub_id.
MappedCategories ==
    {"fdi-type", "investment-investor-type", "investment-involvement",
     "investment-specific-programme", "sector"}

\* Invocation p was given a dictionary of a refresh in which the fetch of a
\* category read through map_to_datahub_id failed, so that it is absent.
GivenPartialVocabulary(p) ==
    /\ metadata[p] # <<>>
    /\ \E i \in 1..Len(metadata[p][1].failed) :
           /\ metadata[p][1].failed[i] \in MappedCategories
           /\ ~HasCategory(metadata[p][1], metadata[p][1].failed[i])

\* C21: an invocation given the dictionary of a partially failed refresh, in
\* which a category the payload maps through map_to_datahub_id is absent, is
\* not left by the fault of looking up the missing category (it returns its
\* response).
C21_MissingCategoryHandled ==
    \A p \in Procs : GivenPartialVocabulary(p) => exc[p] # "KeyError"

\* The endpoints that caller c was answered with a non-success status.
FailedOf(c) ==
    {DATA_HUB_METADATA_ENDPOINTS[i] : i \in AnswersOf(c, {"error"})}

\* C22: a call of dh_fetch_metadata made while the slot holds a dictionary
\* (one that lists failed endpoints included) requests nothing and returns
\* that dictionary, leaving the slot as it is; a call made while the slot is
\* empty or expired, when it returns, has requested each of the ten
\* endpoints exactly once, in order, has written the whole dictionary with
\* its "failed" list to the slot and returns that same dictionary.
C22_HitReturnsSlotMissRefreshesAll ==
    /\ [](\A c \in Callers :
            /\ \A i, j \in 1..Len(cgets[c]) : cgets[c][i] = cgets[c][j] => i = j
            /\ (cpc[c] = "done" /\ cgets[c] # <<>>) =>
                   /\ cgets[c] = DATA_HUB_METADATA_ENDPOINTS
                   /\ ReturnedWithout(c, FailedOf(c)))
    /\ [][\A c \in Callers :
            /\ (cpc[c] = "idle" /\ cpc'[c] # "idle" /\ cache # <<>>) =>
                   /\ cpc'[c] \in {"done", "raised"}
                   /\ cgets'[c] = <<>>
                   /\ cache' = cache
                   /\ cpc'[c] = "done" => cret'[c] = cache
            /\ (cpc[c] = "idle" /\ cpc'[c] # "idle" /\ cache = <<>>) =>
                   cpc'[c] \in {"fetching", "raised"}
            /\ (cpc[c] = "fetching" /\ cpc'[c] = "done") =>
                   /\ cret'[c] # <<>>
                   /\ cache' = cret'[c]
            /\ (cpc'[c] = "fetching" /\ cgets'[c] # cgets[c]) => cache' = cache]_vars

\* One caller refreshed the slot with a dictionary listing a failed endpoint
\* and returned it; another caller was then served that dictionary from the
\* slot without a request.
C22_Witness ==
    \E c, d \in Callers :
        /\ c # d
        /\ cpc[c] = "done" /\ cgets[c] = DATA_HUB_METADATA_ENDPOINTS
        /\ cret[c][1].failed # <<>>
        /\ cpc[d] = "done" /\ cgets[d] = <<>>
        /\ cret[d] = cret[c]
        /\ cache = cret[c]

\* C23: an invocation called without metadata, in which dh_fetch_metadata
\* raises (at the cache read or during the refresh), returns exactly one
\* error, under "metadata", sends neither search nor the creation request,
\* and its step leaves the row of the enquiry as it was.
C23_MetadataFailureStops ==
    /\ [](\A p \in Procs :
            (metadata[p] = <<>> /\ acquired[p].source = "raised") =>
                /\ ReturnedOnly(p, "metadata")
                /\ PipelineRequests(p) = <<>>)
    /\ [][\A p \in Procs :
            (pc[p] = "metadata" /\ acquired'[p].source = "raised") => db' = db]_vars

\* The refresh begun by an invocation raised and the invocation returned.
C23_Witness ==
    \E p \in Procs :
        /\ metadata[p] = <<>>
        /\ acquired[p].source = "raised"
        /\ reqs[p] = << "metadata" >>
        /\ replies[p][1].raised
        /\ pc[p] = "returned"

\* Caller c takes a step of its call and the call is not completed by it.
StepWithoutReturn(c) ==
    /\ cpc'[c] # cpc[c] \/ cgets'[c] # cgets[c]
    /\ cpc'[c] # "done"

\* C24: a call of dh_fetch_metadata writes the slot at no step other than the
\* one that completes it; a refresh that raises part-way therefore leaves the
\* slot exactly as it was, and the slot never holds a dictionary in which an
\* endpoint is neither loaded nor listed as failed.
C24_RaisedRefreshWritesNothing ==
    /\ [][\A c \in Callers : StepWithoutReturn(c) => cache' = cache]_vars
    /\ [](cache # <<>> =>
            \A e \in EndpointSet :
                HasCategory(cache[1], e)
                    # (\E i \in 1..Len(cache[1].failed) : cache[1].failed[i] = e))

\* A refresh raised after several GETs while the slot holds the dictionary
\* another caller stored in the meantime.
C24_Witness ==
    \E c, d \in Callers :
        /\ c # d
        /\ cpc[c] = "raised"
        /\ Len(cgets[c]) > 1
        /\ canswers[c][Len(canswers[c])] = "timeout"
        /\ cpc[d] = "done"
        /\ cache # <<>>
        /\ cache = cret[d]

\* C25: with the invocations for the enquiry made one after the other, the
\* remote system creates at most one investment project for it, also when
\* the answer to a creation request it has processed is lost.
C25_AtMostOneProject == projects <= 1

====================================================================
